---- MODULE Spec2Model ----
(***************************************************************************)
(* Model of claude-voice-assistant: the license manager                    *)
(* (src/core/license_manager.py), the license flows of the main window     *)
(* (src/gui/main_window.py), the speech-to-text engine                     *)
(* (src/core/stt_engine.py), the text-to-speech engine                     *)
(* (src/core/tts_engine.py), the bridge to the CLI                         *)
(* (src/core/claude_bridge.py) and the signal bridge of the main window.   *)
(*                                                                         *)
(* Time is counted in ticks, TicksPerDay ticks to a day.  A datetime is a  *)
(* tick number; its ISO string (datetime.isoformat) is the 1-tuple <<t>>,  *)
(* and Python's None is the empty tuple, so datetime.fromisoformat is      *)
(* defined on ISO strings only and raises TypeError on None.               *)
(***************************************************************************)
EXTENDS Integers, Sequences, FiniteSets, TLC

VARIABLES
    now,            \* datetime.now(), in ticks
    license_data,   \* LicenseManager._license_data (a dict: key -> value)
    license_file,   \* license.json on disk: [exists, data]
    status,         \* LicenseManager._status
    call,           \* the last LicenseManager call: operation, server answer, result
    app,            \* main window: "off", "running" or "crashed"
    gui_op,         \* the last user operation the main window carried out
    stt_state,      \* STTEngine.state
    audio_buffer,   \* STTEngine._audio_buffer (number of captured blocks)
    stop_flag,      \* STTEngine._stop_recording (threading.Event)
    api_key,        \* STTEngine.api_key is set (non-empty)
    rec_threads,    \* recording threads alive: thread id -> position in _record_audio
    rec_started,    \* number of recording threads started so far
    recording_thread, \* STTEngine._recording_thread (thread id, 0 for None)
    trans_threads,  \* transcription threads alive: thread id -> position in _transcribe_audio
    trans_started,  \* number of transcription threads started so far
    stt_pc,         \* the calling (GUI) thread's position inside an STTEngine call
    stt_op,         \* the last STTEngine call or callback ("thread": another thread step)
    cancelled,      \* transcription threads that were alive when cancel_recording returned
    tts_state,      \* TTSEngine.state
    tts_total,      \* len(TTSEngine._sentences)
    current_sentence_index, \* TTSEngine._current_sentence_index
    stop_event,     \* TTSEngine._stop_event (threading.Event)
    pause_event,    \* TTSEngine._pause_event (set: not paused)
    music,          \* pygame.mixer.music: "stopped", "playing" or "paused"
    play_threads,   \* playback threads alive: thread id -> [pc, total] in _play_sentences
    play_started,   \* number of playback threads started so far
    play_thread,    \* TTSEngine._play_thread (thread id, 0 for None)
    tts_pc,         \* the calling (GUI) thread's position inside a TTSEngine call
    tts_text,       \* the text of the speak() call in progress
    tts_op,         \* the last TTSEngine step taken
    tts_progress,   \* on_progress calls since the last speak(): <<i, total>>
    tts_finished,   \* on_finished calls since the last speak()
    tts_calm,       \* no stop(), speak() or pause() was called since the last speak()
    tts_stopped,    \* stop() has returned and no speak() was issued since
    paused_at,      \* <<index>> at the last pause() that took effect, <<>> once resumed
    running,        \* ClaudeBridge.running
    current_process, \* ClaudeBridge.current_process (process id, 0 for None)
    queries,        \* the _execute_query threads: id -> position, local values, callbacks received
    procs,          \* the CLI processes: id -> lines written to stdout, lines read, exited
    br_started,     \* number of query threads started so far
    br_op,          \* the last ClaudeBridge step taken
    sig_queue,      \* the GUI thread's queue of posted signal events
    sig_emitted,    \* signal -> number of emissions made on background threads
    sig_handled,    \* signal -> number of background emissions handled
    sig_count,      \* number of engine callbacks invoked so far
    sig_last        \* the last engine callback step: what ran, where, for which event

lic_vars == <<now, license_data, license_file, status, call>>
gui_vars == <<app, gui_op>>
stt_vars == <<stt_state, audio_buffer, stop_flag, api_key, rec_threads, rec_started,
              recording_thread, trans_threads, trans_started, stt_pc, stt_op, cancelled>>
tts_vars == <<tts_state, tts_total, current_sentence_index, stop_event, pause_event,
              music, play_threads, play_started, play_thread, tts_pc, tts_text, tts_op,
              tts_progress, tts_finished, tts_calm, tts_stopped, paused_at>>
br_vars == <<running, current_process, queries, procs, br_started, br_op>>
sig_vars == <<sig_queue, sig_emitted, sig_handled, sig_count, sig_last>>
ext_vars == <<tts_vars, br_vars, sig_vars>>
vars == <<now, license_data, license_file, status, call, app, gui_op,
          stt_state, audio_buffer, stop_flag, api_key, rec_threads, rec_started,
          recording_thread, trans_threads, trans_started, stt_pc, stt_op, cancelled,
          tts_state, tts_total, current_sentence_index, stop_event, pause_event,
          music, play_threads, play_started, play_thread, tts_pc, tts_text, tts_op,
          tts_progress, tts_finished, tts_calm, tts_stopped, paused_at,
          running, current_process, queries, procs, br_started, br_op,
          sig_queue, sig_emitted, sig_handled, sig_count, sig_last>>

----------------------------------------------------------------------------
(* Bounds and program constants *)

TicksPerDay == 2
EarlyTicks == 1
trial_days == 30      \* LicenseManager(trial_days=30)
MaxBlocks == 2        \* audio blocks kept in the model of _audio_buffer
MaxRecordings == 2    \* recordings started in one run
MaxSentences == 2     \* sentences of a spoken text
MaxSpeaks == 2        \* speak() calls in one run
MaxLines == 2         \* stdout lines of one CLI process
MaxEvents == 3        \* engine callbacks invoked in one run

TrialTicks == trial_days * TicksPerDay
MaxNow == TrialTicks + EarlyTicks + 1

\* The moments at which anything happens: right after installation, and
\* around the end of a trial started then.
Moments == {t \in 0..MaxNow : t <= EarlyTicks \/ t >= TrialTicks - TicksPerDay}

Emails == {"a@x", "b@x"}
Keys == {"KEY1"}

----------------------------------------------------------------------------
(* Values *)

None == << >>
Iso(t) == <<t>>
IsNone(v) == v = None

\* class LicenseStatus
VALID == "valid"
TRIAL == "trial"
TRIAL_EXPIRED == "trial_expired"
EXPIRED == "expired"
INVALID == "invalid"
NO_LICENSE == "no_license"
OFFLINE == "offline"
LicenseStatus == {VALID, TRIAL, TRIAL_EXPIRED, EXPIRED, INVALID, NO_LICENSE, OFFLINE}

\* Python dicts: functions from a finite set of keys
EmptyDict == [k \in {} |-> None]
Has(d, k) == k \in DOMAIN d
Get(d, k, default) == IF Has(d, k) THEN d[k] ELSE default
\* dict.update(new): the keys of new override, every other key is kept
UpdateOverwriteMut(d, new) == new
Update(d, new) == new @@ d

\* timedelta.days: whole days, rounded towards minus infinity
Days(delta) == delta \div TicksPerDay
Max(a, b) == IF a >= b THEN a ELSE b

----------------------------------------------------------------------------
(* The license server's answers *)

ServerExpiry == {None, Iso(EarlyTicks), Iso(TrialTicks)}
ServerTypes == {"", "pro", "lifetime", "team"}   \* "" : the answer names no type

Answer(kind, valid, ltype, expiry) ==
    [kind |-> kind, valid |-> valid, ltype |-> ltype, expiry |-> expiry]
NoAnswer == Answer("none", FALSE, "", None)
NetFail == Answer("netfail", FALSE, "", None)      \* requests.RequestException
Non200 == Answer("error", FALSE, "", None)         \* status_code != 200
TrialAnswers == {NetFail, Non200, Answer("ok", TRUE, "", None)}
ActivateAnswers == {NetFail, Non200} \cup
    {Answer("ok", TRUE, lt, e) : lt \in ServerTypes, e \in ServerExpiry}
ValidateAnswers == {NetFail, Non200} \cup
    {Answer("ok", v, "", e) : v \in BOOLEAN, e \in ServerExpiry}

----------------------------------------------------------------------------
(* LicenseManager: helpers *)

\* datetime.fromisoformat(s) raises TypeError for None; callers test IsNone first
FromIso(s) == s[1]

\* _save_license: json.dump of the dict (None is written as null and read back as None)
Saved(data) == [exists |-> TRUE, data |-> data]
NoFile == [exists |-> FALSE, data |-> EmptyDict]
\* _load_license
Loaded(file) == IF file.exists THEN file.data ELSE EmptyDict

\* get_trial_days_left
get_trial_days_left(data, t) ==
    IF ~Has(data, "trial_start") THEN trial_days
    ELSE LET trial_start == FromIso(data["trial_start"])
             trial_end == trial_start + trial_days * TicksPerDay
             remaining == Days(trial_end - t)
         IN  Max(0, remaining)

\* get_expiry_date: [raised] TypeError, [none] returned None, or the datetime [t]
get_expiry_date(data) ==
    IF Has(data, "expiry_date")
    THEN IF IsNone(data["expiry_date"])
         THEN [raised |-> TRUE, none |-> FALSE, t |-> 0]
         ELSE [raised |-> FALSE, none |-> FALSE, t |-> FromIso(data["expiry_date"])]
    ELSE [raised |-> FALSE, none |-> TRUE, t |-> 0]

TrialTypes == {"trial", "trial_offline"}
PaidTypes == {"pro", "lifetime"}
TypeOf(data) == Get(data, "license_type", "")

\* The outcome of one call: the new manager state and what the caller sees.
\* ret is the returned value ("True"/"False" for a bool, a status value for a
\* LicenseStatus), or the name of the exception when raised.
Outcome(data, file, st, ret, raised, contacted) ==
    [data |-> data, file |-> file, status |-> st, ret |-> ret,
     raised |-> raised, contacted |-> contacted]

\* validate, lines 263-265: a non-200 answer
ValidateNon200(data, file, st, t) ==
    Outcome(data, file, OFFLINE, OFFLINE, FALSE, TRUE)

\* validate, lines 267-276: requests.RequestException
ValidateNetFail(data, file, st, t) ==
    LET expiry == get_expiry_date(data) IN
    IF expiry.raised THEN Outcome(data, file, st, "TypeError", TRUE, TRUE)
    ELSE IF ~expiry.none /\ expiry.t < t
         THEN Outcome(data, file, EXPIRED, EXPIRED, FALSE, TRUE)
         ELSE Outcome(data, file, OFFLINE, OFFLINE, FALSE, TRUE)

\* validate, lines 249-262: a 200 answer
Validate200(data, file, st, t, ans) ==
    IF ans.valid
    THEN LET data2 == Update(data, [expiry_date |-> ans.expiry])
             expiry == get_expiry_date(data2)
         IN  IF expiry.raised
             THEN Outcome(data2, Saved(data2), st, "TypeError", TRUE, TRUE)
             ELSE IF ~expiry.none /\ expiry.t < t
                  THEN Outcome(data2, Saved(data2), EXPIRED, EXPIRED, FALSE, TRUE)
                  ELSE Outcome(data2, Saved(data2), VALID, VALID, FALSE, TRUE)
    ELSE Outcome(data, file, INVALID, INVALID, FALSE, TRUE)

\* validate, lines 227-234: a trial license
ValidateTrialContactsMut(data, file, st, t) ==
    IF get_trial_days_left(data, t) > 0
    THEN Outcome(data, file, TRIAL, TRIAL, FALSE, TRUE)
    ELSE Outcome(data, file, TRIAL_EXPIRED, TRIAL_EXPIRED, FALSE, TRUE)
ValidateTrial(data, file, st, t) ==
    LET days_left == get_trial_days_left(data, t) IN
    IF days_left > 0
    THEN Outcome(data, file, TRIAL, TRIAL, FALSE, FALSE)
    ELSE Outcome(data, file, TRIAL_EXPIRED, TRIAL_EXPIRED, FALSE, FALSE)

\* validate
ValidateOutcome(data, file, st, t, ans) ==
    IF data = EmptyDict
    THEN Outcome(data, file, NO_LICENSE, NO_LICENSE, FALSE, FALSE)
    ELSE IF TypeOf(data) \in TrialTypes
         THEN ValidateTrial(data, file, st, t)
         ELSE IF TypeOf(data) \in PaidTypes
              THEN IF ans.kind = "ok" THEN Validate200(data, file, st, t, ans)
                   ELSE IF ans.kind = "error" THEN ValidateNon200(data, file, st, t)
                   ELSE ValidateNetFail(data, file, st, t)
              ELSE Outcome(data, file, NO_LICENSE, NO_LICENSE, FALSE, FALSE)

\* can_use_app, lines 286-290: the statuses that let the user in
CanUseWithoutOfflineMut(st) == st \in {VALID, TRIAL}
CanUse(st) == st \in {VALID, TRIAL, OFFLINE}

\* can_use_app
CanUseAppOutcome(data, file, st, t, ans) ==
    LET v == ValidateOutcome(data, file, st, t, ans) IN
    IF v.raised THEN v
    ELSE [v EXCEPT !.ret = IF CanUse(v.ret) THEN "True" ELSE "False"]

\* start_trial: the three branches store the same dict up to license_type
StartTrialNoPersistMut(data, file, st, t, email, ans) ==
    Outcome(data, file, TRIAL, "True", FALSE, TRUE)
StartTrialOutcome(data, file, st, t, email, ans) ==
    LET data2 == IF ans.kind = "ok"
                 THEN [email |-> email, trial_start |-> Iso(t),
                       license_type |-> "trial", server_response |-> "data"]
                 ELSE [email |-> email, trial_start |-> Iso(t),
                       license_type |-> "trial_offline"]
    IN  Outcome(data2, Saved(data2), TRIAL, "True", FALSE, TRUE)

\* activate_license, lines 211-216: the failure branches
ActivateFailClearsMut(data, file, st) ==
    Outcome(EmptyDict, file, NO_LICENSE, "False", FALSE, TRUE)
ActivateFail(data, file, st) ==
    Outcome(data, file, st, "False", FALSE, TRUE)

\* activate_license
ActivateOutcome(data, file, st, t, key, ans) ==
    IF ans.kind = "ok"
    THEN LET data2 == Update(data,
                 [license_key |-> key,
                  license_type |-> IF ans.ltype = "" THEN "pro" ELSE ans.ltype,
                  expiry_date |-> ans.expiry,
                  activated_at |-> Iso(t)])
         IN  Outcome(data2, Saved(data2), VALID, "True", FALSE, TRUE)
    ELSE ActivateFail(data, file, st)

----------------------------------------------------------------------------
(* LicenseManager: the public operations, called in any order *)

NoCall == [op |-> "none", arg |-> "", ans |-> NoAnswer, ret |-> "", raised |-> FALSE,
           contacted |-> FALSE]
Call(op, arg, ans, o) ==
    [op |-> op, arg |-> arg, ans |-> IF o.contacted THEN ans ELSE NoAnswer,
     ret |-> o.ret, raised |-> o.raised, contacted |-> o.contacted]

Apply(op, arg, ans, o) ==
    /\ license_data' = o.data
    /\ license_file' = o.file
    /\ status' = o.status
    /\ call' = Call(op, arg, ans, o)

\* LicenseManager.__init__: a new process loads license.json
Construct ==
    /\ license_data' = Loaded(license_file)
    /\ status' = NO_LICENSE
    /\ call' = NoCall
    /\ UNCHANGED <<now, license_file, gui_vars, stt_vars, ext_vars>>

start_trial ==
    \E email \in Emails, ans \in TrialAnswers :
        /\ Apply("start_trial", email, ans,
                 StartTrialOutcome(license_data, license_file, status, now, email, ans))
        /\ UNCHANGED <<now, gui_vars, stt_vars, ext_vars>>

activate_license ==
    \E key \in Keys, ans \in ActivateAnswers :
        /\ Apply("activate_license", key, ans,
                 ActivateOutcome(license_data, license_file, status, now, key, ans))
        /\ UNCHANGED <<now, gui_vars, stt_vars, ext_vars>>

validate ==
    \E ans \in ValidateAnswers :
        /\ Apply("validate", "", ans,
                 ValidateOutcome(license_data, license_file, status, now, ans))
        /\ UNCHANGED <<now, gui_vars, stt_vars, ext_vars>>

can_use_app ==
    \E ans \in ValidateAnswers :
        /\ Apply("can_use_app", "", ans,
                 CanUseAppOutcome(license_data, license_file, status, now, ans))
        /\ UNCHANGED <<now, gui_vars, stt_vars, ext_vars>>

clear_license ==
    /\ license_data' = EmptyDict
    /\ license_file' = NoFile
    /\ status' = NO_LICENSE
    /\ call' = NoCall
    /\ UNCHANGED <<now, gui_vars, stt_vars, ext_vars>>

\* Time passes between calls
Advance ==
    /\ \E t \in Moments : t > now /\ now' = t
    /\ call' = NoCall
    /\ UNCHANGED <<license_data, license_file, status, gui_vars, stt_vars, ext_vars>>

----------------------------------------------------------------------------
(* STTEngine (src/core/stt_engine.py) *)

\* class STTState
STT_IDLE == "idle"
STT_RECORDING == "recording"
STT_PROCESSING == "processing"

Alive(threads, id) == id \in DOMAIN threads
Without(threads, id) == [i \in DOMAIN threads \ {id} |-> threads[i]]

\* start_recording, lines 67-74: what the call does once past the state test
StartRecordingBody(id) ==
    /\ audio_buffer' = 0
    /\ stop_flag' = FALSE
    /\ stt_state' = STT_RECORDING
    /\ rec_started' = id
    /\ rec_threads' = (id :> "open") @@ rec_threads
    /\ recording_thread' = id

\* start_recording, lines 64-65: the state test
StartRecordingAnyStateMut(st) == TRUE
StartRecordingAllowed(st) == st = STT_IDLE

\* start_recording
start_recording ==
    /\ stt_pc = "idle"
    /\ stt_op' = "start_recording"
    /\ IF StartRecordingAllowed(stt_state)
       THEN /\ rec_started < MaxRecordings
            /\ StartRecordingBody(rec_started + 1)
       ELSE UNCHANGED <<stt_state, audio_buffer, stop_flag, rec_threads, rec_started,
                        recording_thread>>
    /\ UNCHANGED <<api_key, trans_threads, trans_started, stt_pc, cancelled, lic_vars, gui_vars, ext_vars>>

\* stop_recording, lines 78-85: set the stop event and wait for the recording thread
stop_recording_begin ==
    /\ stt_pc = "idle"
    /\ stt_op' = "stop_recording"
    /\ IF stt_state # STT_RECORDING
       THEN UNCHANGED <<stop_flag, stt_pc>>
       ELSE /\ stop_flag' = TRUE
            /\ stt_pc' = "stop_join"
    /\ UNCHANGED <<stt_state, audio_buffer, api_key, rec_threads, rec_started,
                   recording_thread, trans_threads, trans_started, cancelled, lic_vars, gui_vars, ext_vars>>

\* stop_recording, line 88: was any audio captured
HasAudioAlwaysMut(buffer) == TRUE
HasAudio(buffer) == buffer > 0

\* stop_recording, lines 87-94: join has returned (the thread ended, or the
\* 2 s timeout passed with the thread still alive)
stop_recording_end ==
    /\ stt_pc = "stop_join"
    /\ stt_pc' = "idle"
    /\ stt_op' = "stop_recording_end"
    /\ IF HasAudio(audio_buffer)
       THEN /\ stt_state' = STT_PROCESSING
            /\ trans_started' = trans_started + 1
            /\ trans_threads' = ((trans_started + 1) :> "start") @@ trans_threads
       ELSE /\ stt_state' = STT_IDLE
            /\ UNCHANGED <<trans_threads, trans_started>>
    /\ UNCHANGED <<audio_buffer, stop_flag, api_key, rec_threads, rec_started,
                   recording_thread, cancelled, lic_vars, gui_vars, ext_vars>>

\* cancel_recording, lines 98-101
cancel_recording_begin ==
    /\ stt_pc = "idle"
    /\ stt_op' = "cancel_recording"
    /\ stop_flag' = TRUE
    /\ stt_pc' = "cancel_join"
    /\ UNCHANGED <<stt_state, audio_buffer, api_key, rec_threads, rec_started,
                   recording_thread, trans_threads, trans_started, cancelled, lic_vars, gui_vars, ext_vars>>

\* cancel_recording, lines 103-104
cancel_recording_end ==
    /\ stt_pc = "cancel_join"
    /\ stt_pc' = "idle"
    /\ stt_op' = "cancel_recording_end"
    /\ audio_buffer' = 0
    /\ stt_state' = STT_IDLE
    /\ cancelled' = DOMAIN trans_threads
    /\ UNCHANGED <<stop_flag, api_key, rec_threads, rec_started, recording_thread,
                   trans_threads, trans_started, lic_vars, gui_vars, ext_vars>>

\* set_api_key
set_api_key ==
    /\ stt_pc = "idle"
    /\ \E k \in BOOLEAN : api_key' = k
    /\ stt_op' = "set_api_key"
    /\ UNCHANGED <<stt_state, audio_buffer, stop_flag, rec_threads, rec_started,
                   recording_thread, trans_threads, trans_started, stt_pc, cancelled, lic_vars,
                   gui_vars, ext_vars>>

\* _record_audio, lines 135-141: the input stream opens
rec_open ==
    \E id \in DOMAIN rec_threads :
        /\ rec_threads[id] = "open"
        /\ rec_threads' = [rec_threads EXCEPT ![id] = "streaming"]
        /\ stt_op' = "thread"
        /\ UNCHANGED <<stt_state, audio_buffer, stop_flag, api_key, rec_started,
                       recording_thread, trans_threads, trans_started, stt_pc, cancelled, lic_vars,
                       gui_vars, ext_vars>>

\* _record_audio, lines 145-148: the input stream cannot be opened
rec_error ==
    \E id \in DOMAIN rec_threads :
        /\ rec_threads[id] = "open"
        /\ rec_threads' = Without(rec_threads, id)
        /\ stt_state' = STT_IDLE
        /\ stt_op' = "thread"
        /\ UNCHANGED <<audio_buffer, stop_flag, api_key, rec_started, recording_thread,
                       trans_threads, trans_started, stt_pc, cancelled, lic_vars, gui_vars, ext_vars>>

\* audio_callback, lines 123-133: one block of audio arrives
rec_capture ==
    \E id \in DOMAIN rec_threads :
        /\ rec_threads[id] = "streaming"
        /\ audio_buffer < MaxBlocks
        /\ audio_buffer' = audio_buffer + 1
        /\ stt_op' = "thread"
        /\ UNCHANGED <<stt_state, stop_flag, api_key, rec_threads, rec_started,
                       recording_thread, trans_threads, trans_started, stt_pc, cancelled, lic_vars,
                       gui_vars, ext_vars>>

\* _record_audio, lines 142-143: the loop sees the stop event and the thread ends
rec_exit ==
    \E id \in DOMAIN rec_threads :
        /\ rec_threads[id] = "streaming"
        /\ stop_flag
        /\ rec_threads' = Without(rec_threads, id)
        /\ stt_op' = "thread"
        /\ UNCHANGED <<stt_state, audio_buffer, stop_flag, api_key, rec_started,
                       recording_thread, trans_threads, trans_started, stt_pc, cancelled, lic_vars,
                       gui_vars, ext_vars>>

\* _transcribe_audio, lines 152-158: the key test and the read of the buffer
\* (np.concatenate of an empty list raises ValueError)
trans_begin ==
    \E id \in DOMAIN trans_threads :
        /\ trans_threads[id] = "start"
        /\ trans_threads' = [trans_threads EXCEPT ![id] =
               IF ~api_key \/ audio_buffer = 0 THEN "failed" ELSE "uploading"]
        /\ stt_op' = "thread"
        /\ UNCHANGED <<stt_state, audio_buffer, stop_flag, api_key, rec_threads,
                       rec_started, recording_thread, trans_started, stt_pc, cancelled, lic_vars,
                       gui_vars, ext_vars>>

\* _transcribe_audio, lines 176-178: the finally block's _set_state
TransFinalStateKeptMut == stt_state
TransFinalState == STT_IDLE

\* _transcribe_audio, lines 160-178: the answer of the API (a text, a blank text
\* or an error), the callback, and the finally block
trans_end ==
    \E id \in DOMAIN trans_threads :
        /\ trans_threads[id] \in {"failed", "uploading"}
        /\ \E outcome \in IF trans_threads[id] = "failed" THEN {"on_error"}
                          ELSE {"on_transcription", "blank", "on_error"} :
               stt_op' = outcome
        /\ trans_threads' = Without(trans_threads, id)
        /\ cancelled' = cancelled \ {id}
        /\ audio_buffer' = 0
        /\ stt_state' = TransFinalState
        /\ UNCHANGED <<stop_flag, api_key, rec_threads, rec_started, recording_thread,
                       trans_started, stt_pc, lic_vars, gui_vars, ext_vars>>

NextSTT ==
    \/ start_recording
    \/ stop_recording_begin
    \/ stop_recording_end
    \/ cancel_recording_begin
    \/ cancel_recording_end
    \/ set_api_key
    \/ rec_open
    \/ rec_error
    \/ rec_capture
    \/ rec_exit
    \/ trans_begin
    \/ trans_end

----------------------------------------------------------------------------
(* TTSEngine (src/core/tts_engine.py) *)

TTS_IDLE == "idle"
TTS_GENERATING == "generating"
TTS_PLAYING == "playing"
TTS_PAUSED == "paused"

\* A text is given by the number of sentences it splits into; 0 is a blank text
Texts == 0..MaxSentences
IsBlank(text) == text = 0

\* _split_into_sentences, lines 138-152: the number of sentences of a text
\* (a text without sentence marks is one sentence)
split_into_sentences(text) == IF text = 0 THEN 1 ELSE text

\* pygame.mixer.music.get_busy(): paused music counts as busy in pygame 1
\* and as idle from pygame 2.0.1 on
GetBusy == IF music = "paused" THEN BOOLEAN ELSE {music = "playing"}

\* pause, line 91
PauseAllowed(st) == st = TTS_PLAYING

\* resume, line 99
ResumeAllowed(st) == st = TTS_PAUSED

\* stop, lines 106-109: both events set, the mixer stopped
StopBody ==
    /\ stop_event' = TRUE
    /\ pause_event' = TRUE
    /\ music' = "stopped"
    /\ paused_at' = <<>>
    /\ tts_calm' = FALSE

\* stop, lines 112-113: join(timeout=2) is over: the thread has ended, or it
\* is inside _generate_audio (a network call without a timeout) for longer
JoinOver ==
    IF Alive(play_threads, play_thread)
    THEN play_threads[play_thread].pc = "generating"
    ELSE TRUE

\* speak, lines 70-73: a blank text
speak_blank ==
    /\ tts_pc = "idle"
    /\ \E text \in Texts : IsBlank(text)
    /\ tts_op' = "speak_blank"
    /\ UNCHANGED <<tts_state, tts_total, current_sentence_index, stop_event, pause_event,
                   music, play_threads, play_started, play_thread, tts_pc, tts_text,
                   tts_progress, tts_finished, tts_calm, tts_stopped, paused_at,
                   lic_vars, gui_vars, stt_vars, br_vars, sig_vars>>

\* speak, lines 72-76, and stop, lines 106-113, up to the join
speak_begin ==
    /\ tts_pc = "idle"
    /\ play_started < MaxSpeaks
    /\ \E text \in Texts :
        /\ ~IsBlank(text)
        /\ tts_text' = text
    /\ StopBody
    /\ tts_stopped' = FALSE
    /\ tts_pc' = "speak_join"
    /\ tts_op' = "speak_begin"
    /\ UNCHANGED <<tts_state, tts_total, current_sentence_index, play_threads,
                   play_started, play_thread, tts_progress, tts_finished,
                   lic_vars, gui_vars, stt_vars, br_vars, sig_vars>>

\* stop, lines 116-118, and speak, lines 78-88
speak_end ==
    /\ tts_pc = "speak_join"
    /\ JoinOver
    /\ tts_total' = split_into_sentences(tts_text)
    /\ current_sentence_index' = 0
    /\ stop_event' = FALSE
    /\ pause_event' = TRUE
    /\ play_started' = play_started + 1
    /\ play_thread' = play_started'
    /\ play_threads' = [id \in DOMAIN play_threads \cup {play_started'} |->
                           IF id = play_started'
                           THEN [pc |-> "loop", total |-> tts_total']
                           ELSE play_threads[id]]
    /\ tts_state' = TTS_IDLE
    /\ tts_progress' = <<>>
    /\ tts_finished' = 0
    /\ tts_calm' = TRUE
    /\ tts_pc' = "idle"
    /\ tts_op' = "speak"
    /\ UNCHANGED <<music, tts_text, tts_stopped, paused_at, lic_vars, gui_vars, stt_vars, br_vars, sig_vars>>

\* stop, lines 104-113, up to the join
stop_begin ==
    /\ tts_pc = "idle"
    /\ StopBody
    /\ tts_pc' = "stop_join"
    /\ tts_op' = "stop_begin"
    /\ UNCHANGED <<tts_state, tts_total, current_sentence_index, play_threads,
                   play_started, play_thread, tts_text, tts_progress, tts_finished,
                   tts_stopped, lic_vars, gui_vars, stt_vars, br_vars, sig_vars>>

\* stop, lines 116-118
stop_end ==
    /\ tts_pc = "stop_join"
    /\ JoinOver
    /\ tts_state' = TTS_IDLE
    /\ tts_stopped' = TRUE
    /\ tts_pc' = "idle"
    /\ tts_op' = "stop"
    /\ UNCHANGED <<tts_total, current_sentence_index, stop_event, pause_event, music,
                   play_threads, play_started, play_thread, tts_text, tts_progress,
                   tts_finished, tts_calm, paused_at, lic_vars, gui_vars, stt_vars, br_vars, sig_vars>>

\* pause, lines 92-95
PauseBody ==
    /\ pause_event' = FALSE
    /\ music' = IF music = "playing" THEN "paused" ELSE music
    /\ tts_state' = TTS_PAUSED
    /\ paused_at' = <<current_sentence_index>>

\* resume, lines 100-102
ResumeBody ==
    /\ pause_event' = TRUE
    /\ music' = IF music = "paused" THEN "playing" ELSE music
    /\ tts_state' = TTS_PLAYING
    /\ paused_at' = <<>>

\* pause, lines 90-95
pause ==
    /\ tts_pc = "idle"
    /\ tts_op' = "pause"
    /\ tts_calm' = FALSE
    /\ IF PauseAllowed(tts_state)
       THEN PauseBody
       ELSE UNCHANGED <<pause_event, music, tts_state, paused_at>>
    /\ UNCHANGED <<tts_total, current_sentence_index, stop_event, play_threads,
                   play_started, play_thread, tts_pc, tts_text, tts_progress,
                   tts_finished, tts_stopped, lic_vars, gui_vars, stt_vars, br_vars, sig_vars>>

\* resume, lines 97-102
resume ==
    /\ tts_pc = "idle"
    /\ tts_op' = "resume"
    /\ IF ResumeAllowed(tts_state)
       THEN ResumeBody
       ELSE UNCHANGED <<pause_event, music, tts_state, paused_at>>
    /\ UNCHANGED <<tts_total, current_sentence_index, stop_event, play_threads,
                   play_started, play_thread, tts_pc, tts_text, tts_progress,
                   tts_finished, tts_calm, tts_stopped, lic_vars, gui_vars, stt_vars, br_vars, sig_vars>>

\* toggle_pause, lines 120-125
toggle_pause ==
    /\ tts_pc = "idle"
    /\ tts_op' = "toggle_pause"
    /\ IF tts_state = TTS_PLAYING
       THEN /\ tts_calm' = FALSE
            /\ IF PauseAllowed(tts_state)
               THEN PauseBody
               ELSE UNCHANGED <<pause_event, music, tts_state, paused_at>>
       ELSE /\ tts_calm' = tts_calm
            /\ IF tts_state = TTS_PAUSED /\ ResumeAllowed(tts_state)
               THEN ResumeBody
               ELSE UNCHANGED <<pause_event, music, tts_state, paused_at>>
    /\ UNCHANGED <<tts_total, current_sentence_index, stop_event, play_threads,
                   play_started, play_thread, tts_pc, tts_text, tts_progress,
                   tts_finished, tts_stopped, lic_vars, gui_vars, stt_vars, br_vars, sig_vars>>

\* The playback thread id moves to position pc
Goto(id, pc) == play_threads' = [play_threads EXCEPT ![id].pc = pc]

\* _play_sentences, lines 159-167: the loop test, the stop tests and the wait
\* on the pause event
play_loop ==
    \E id \in DOMAIN play_threads :
        /\ play_threads[id].pc = "loop"
        /\ IF current_sentence_index >= play_threads[id].total \/ stop_event
           THEN Goto(id, "after_loop")
           ELSE pause_event /\ Goto(id, "gen_start")
        /\ tts_op' = "loop"
        /\ UNCHANGED <<tts_state, tts_total, current_sentence_index, stop_event,
                       pause_event, music, play_started, play_thread, tts_pc, tts_text,
                       tts_progress, tts_finished, tts_calm, tts_stopped, paused_at,
                       lic_vars, gui_vars, stt_vars, br_vars, sig_vars>>

\* _play_sentences, lines 168-173: the sentence is picked, the state set, and
\* _generate_audio entered
play_gen_start ==
    \E id \in DOMAIN play_threads :
        /\ play_threads[id].pc = "gen_start"
        /\ tts_state' = TTS_GENERATING
        /\ Goto(id, "generating")
        /\ tts_op' = "gen_start"
        /\ UNCHANGED <<tts_total, current_sentence_index, stop_event, pause_event, music,
                       play_started, play_thread, tts_pc, tts_text, tts_progress,
                       tts_finished, tts_calm, tts_stopped, paused_at,
                       lic_vars, gui_vars, stt_vars, br_vars, sig_vars>>

\* _play_sentences, lines 173-178, and _generate_audio, lines 210-232: the
\* audio file, or None after an error
play_gen_done ==
    \E id \in DOMAIN play_threads, audio_file \in BOOLEAN :
        /\ play_threads[id].pc = "generating"
        /\ IF stop_event
           THEN Goto(id, "after_loop")
           ELSE IF audio_file THEN Goto(id, "set_playing") ELSE Goto(id, "progress")
        /\ tts_op' = "gen_done"
        /\ UNCHANGED <<tts_state, tts_total, current_sentence_index, stop_event,
                       pause_event, music, play_started, play_thread, tts_pc, tts_text,
                       tts_progress, tts_finished, tts_calm, tts_stopped, paused_at,
                       lic_vars, gui_vars, stt_vars, br_vars, sig_vars>>

\* _play_sentences, line 180
play_set_playing ==
    \E id \in DOMAIN play_threads :
        /\ play_threads[id].pc = "set_playing"
        /\ tts_state' = TTS_PLAYING
        /\ Goto(id, "play")
        /\ tts_op' = "set_playing"
        /\ UNCHANGED <<tts_total, current_sentence_index, stop_event, pause_event, music,
                       play_started, play_thread, tts_pc, tts_text, tts_progress,
                       tts_finished, tts_calm, tts_stopped, paused_at,
                       lic_vars, gui_vars, stt_vars, br_vars, sig_vars>>

\* _play_sentences, line 181, and _play_audio_file, lines 244-251
play_audio_file ==
    \E id \in DOMAIN play_threads :
        /\ play_threads[id].pc = "play"
        /\ music' = "playing"
        /\ Goto(id, "busy")
        /\ tts_op' = "play"
        /\ UNCHANGED <<tts_state, tts_total, current_sentence_index, stop_event,
                       pause_event, play_started, play_thread, tts_pc, tts_text,
                       tts_progress, tts_finished, tts_calm, tts_stopped, paused_at,
                       lic_vars, gui_vars, stt_vars, br_vars, sig_vars>>

\* _play_sentences, lines 184-188: the wait loop is left when the mixer is idle
\* or the stop event is set; it stands still on a cleared pause event
play_busy_exit ==
    \E id \in DOMAIN play_threads, busy \in GetBusy :
        /\ play_threads[id].pc = "busy"
        /\ ~busy \/ stop_event
        /\ Goto(id, "progress")
        /\ tts_op' = "busy_exit"
        /\ UNCHANGED <<tts_state, tts_total, current_sentence_index, stop_event,
                       pause_event, music, play_started, play_thread, tts_pc, tts_text,
                       tts_progress, tts_finished, tts_calm, tts_stopped, paused_at,
                       lic_vars, gui_vars, stt_vars, br_vars, sig_vars>>

\* _play_sentences, lines 190-194
play_progress ==
    \E id \in DOMAIN play_threads :
        /\ play_threads[id].pc = "progress"
        /\ tts_progress' = Append(tts_progress,
                                  <<current_sentence_index + 1, play_threads[id].total>>)
        /\ current_sentence_index' = current_sentence_index + 1
        /\ Goto(id, "loop")
        /\ tts_op' = "on_progress"
        /\ UNCHANGED <<tts_state, tts_total, stop_event, pause_event, music,
                       play_started, play_thread, tts_pc, tts_text, tts_finished,
                       tts_calm, tts_stopped, paused_at, lic_vars, gui_vars, stt_vars, br_vars, sig_vars>>

\* _play_sentences, lines 196-208: after the loop
play_finish ==
    \E id \in DOMAIN play_threads :
        /\ play_threads[id].pc = "after_loop"
        /\ IF stop_event
           THEN /\ tts_op' = "thread_end"
                /\ UNCHANGED <<tts_state, tts_finished>>
           ELSE /\ tts_op' = "on_finished"
                /\ tts_state' = TTS_IDLE
                /\ tts_finished' = tts_finished + 1
        /\ play_threads' = Without(play_threads, id)
        /\ UNCHANGED <<tts_total, current_sentence_index, stop_event, pause_event, music,
                       play_started, play_thread, tts_pc, tts_text, tts_progress,
                       tts_calm, tts_stopped, paused_at, lic_vars, gui_vars, stt_vars, br_vars, sig_vars>>

\* pygame: the audio file has been played to its end
music_end ==
    /\ music = "playing"
    /\ music' = "stopped"
    /\ tts_op' = "music_end"
    /\ UNCHANGED <<tts_state, tts_total, current_sentence_index, stop_event, pause_event,
                   play_threads, play_started, play_thread, tts_pc, tts_text,
                   tts_progress, tts_finished, tts_calm, tts_stopped, paused_at,
                   lic_vars, gui_vars, stt_vars, br_vars, sig_vars>>

NextTTS ==
    \/ speak_blank
    \/ speak_begin
    \/ speak_end
    \/ stop_begin
    \/ stop_end
    \/ pause
    \/ resume
    \/ toggle_pause
    \/ play_loop
    \/ play_gen_start
    \/ play_gen_done
    \/ play_set_playing
    \/ play_audio_file
    \/ play_busy_exit
    \/ play_progress
    \/ play_finish
    \/ music_end

----------------------------------------------------------------------------
(* ClaudeBridge (src/core/claude_bridge.py) *)

\* The query threads of one run
QueryIds == {1, 2}

\* The stdout lines of the CLI: a line with text and a line of white space
Lines == {"x", " "}
Notice == "processing"

\* str.strip() of the concatenated lines is empty
IsBlankTextNeverMut(text) == FALSE
IsBlankText(text) == \A i \in 1..Len(text) : text[i] = " "

\* start, lines 42-63: `command --version` could be run, or not
br_start ==
    /\ \E ok \in BOOLEAN :
        IF ok
        THEN running' = TRUE /\ br_op' = "start"
        ELSE running' = running /\ br_op' = "start_failed"
    /\ UNCHANGED <<current_process, queries, procs, br_started,
                   lic_vars, gui_vars, stt_vars, tts_vars, sig_vars>>

\* Popen.terminate()
Terminated(p) == [procs EXCEPT ![p].exited = TRUE]

\* stop, lines 65-73
br_stop ==
    /\ running' = FALSE
    /\ IF current_process # 0
       THEN procs' = Terminated(current_process)
       ELSE procs' = procs
    /\ current_process' = 0
    /\ br_op' = "stop"
    /\ UNCHANGED <<queries, br_started, lic_vars, gui_vars, stt_vars, tts_vars, sig_vars>>

\* send_interrupt, lines 133-140
send_interrupt ==
    /\ IF current_process # 0
       THEN procs' = Terminated(current_process)
       ELSE procs' = procs
    /\ br_op' = "send_interrupt"
    /\ UNCHANGED <<running, current_process, queries, br_started,
                   lic_vars, gui_vars, stt_vars, tts_vars, sig_vars>>

\* send, line 77
SendAllowed(r) == r

\* send, lines 75-85
send ==
    /\ br_started + 1 \in QueryIds
    /\ br_op' = "send"
    /\ IF SendAllowed(running)
       THEN /\ br_started' = br_started + 1
            /\ queries' = [q \in DOMAIN queries \cup {br_started'} |->
                              IF q = br_started'
                              THEN [pc |-> "start", stdout |-> 0, response_text |-> <<>>,
                                    out |-> <<>>, alone |-> DOMAIN queries = {}]
                              ELSE [queries[q] EXCEPT !.alone = FALSE]]
       ELSE UNCHANGED <<br_started, queries>>
    /\ UNCHANGED <<running, current_process, procs, lic_vars, gui_vars, stt_vars, tts_vars, sig_vars>>

\* The thread q has ended; a process is kept as long as a thread can reach it
Ended(q) ==
    /\ queries' = Without(queries, q)
    /\ procs' = [p \in {r \in DOMAIN procs :
                            \E t \in DOMAIN queries \ {q} : t = r \/ queries[t].stdout = r}
                    |-> procs[p]]

\* _execute_query, lines 129-131: on_error in the except clause, and the
\* finally clause
Failed(q) ==
    /\ Ended(q)
    /\ current_process' = 0
    /\ br_op' = "on_error"

\* _execute_query, lines 92-94
query_notice ==
    \E q \in DOMAIN queries :
        /\ queries[q].pc = "start"
        /\ queries' = [queries EXCEPT ![q].pc = "popen",
                                      ![q].out = Append(@, Notice)]
        /\ br_op' = "notice"
        /\ UNCHANGED <<running, current_process, procs, br_started,
                       lic_vars, gui_vars, stt_vars, tts_vars, sig_vars>>

\* _execute_query, lines 97-104: the process is started, or Popen raises
query_popen ==
    \E q \in DOMAIN queries, ok \in BOOLEAN :
        /\ queries[q].pc = "popen"
        /\ IF ok
           THEN /\ procs' = [p \in DOMAIN procs \cup {q} |->
                                IF p = q
                                THEN [produced |-> <<>>, read |-> 0, exited |-> FALSE]
                                ELSE procs[p]]
                /\ current_process' = q
                /\ queries' = [queries EXCEPT ![q].pc = "iter"]
                /\ br_op' = "popen"
           ELSE Failed(q)
        /\ UNCHANGED <<running, br_started, lic_vars, gui_vars, stt_vars, tts_vars, sig_vars>>

\* _execute_query, line 106: self.current_process.stdout is read; on None it
\* raises AttributeError
query_iter ==
    \E q \in DOMAIN queries :
        /\ queries[q].pc = "iter"
        /\ IF current_process = 0
           THEN Failed(q)
           ELSE /\ queries' = [queries EXCEPT ![q].pc = "read",
                                              ![q].stdout = current_process]
                /\ UNCHANGED <<current_process, procs>>
                /\ br_op' = "iter"
        /\ UNCHANGED <<running, br_started, lic_vars, gui_vars, stt_vars, tts_vars, sig_vars>>

\* _execute_query, lines 106-109: the next line of the pipe, or its end
query_read ==
    \E q \in DOMAIN queries :
        /\ queries[q].pc = "read"
        /\ LET p == queries[q].stdout
           IN  IF procs[p].read < Len(procs[p].produced)
               THEN LET line == procs[p].produced[procs[p].read + 1]
                    IN  /\ procs' = [procs EXCEPT ![p].read = @ + 1]
                        /\ queries' = [queries EXCEPT
                                          ![q].response_text = Append(@, line),
                                          ![q].out = Append(@, line)]
                        /\ br_op' = "on_output"
               ELSE /\ procs[p].exited
                    /\ procs' = procs
                    /\ queries' = [queries EXCEPT ![q].pc = "wait"]
                    /\ br_op' = "eof"
        /\ UNCHANGED <<running, current_process, br_started,
                       lic_vars, gui_vars, stt_vars, tts_vars, sig_vars>>

\* _execute_query, lines 111-131: wait(), stderr, on_response_complete and the
\* finally clause; self.current_process is read again and may be None
query_wait ==
    \E q \in DOMAIN queries :
        /\ queries[q].pc = "wait"
        /\ IF current_process = 0
           THEN Failed(q)
           ELSE /\ procs[current_process].exited
                /\ current_process' = 0
                /\ Ended(q)
                /\ br_op' = IF IsBlankText(queries[q].response_text)
                            THEN "query_end"
                            ELSE "on_response_complete"
        /\ UNCHANGED <<running, br_started, lic_vars, gui_vars, stt_vars, tts_vars, sig_vars>>

\* The CLI process writes a line to its stdout
proc_write ==
    \E p \in DOMAIN procs, line \in Lines :
        /\ ~procs[p].exited
        /\ Len(procs[p].produced) < MaxLines
        /\ procs' = [procs EXCEPT ![p].produced = Append(@, line)]
        /\ br_op' = "proc_write"
        /\ UNCHANGED <<running, current_process, queries, br_started,
                       lic_vars, gui_vars, stt_vars, tts_vars, sig_vars>>

\* The CLI process exits
proc_exit ==
    \E p \in DOMAIN procs :
        /\ ~procs[p].exited
        /\ procs' = Terminated(p)
        /\ br_op' = "proc_exit"
        /\ UNCHANGED <<running, current_process, queries, br_started,
                       lic_vars, gui_vars, stt_vars, tts_vars, sig_vars>>

NextBridge ==
    \/ br_start
    \/ br_stop
    \/ send_interrupt
    \/ send
    \/ query_notice
    \/ query_popen
    \/ query_iter
    \/ query_read
    \/ query_wait
    \/ proc_write
    \/ proc_exit

----------------------------------------------------------------------------
(* SignalBridge and MainWindow._setup_connections (src/gui/main_window.py) *)

\* The callbacks of the engines
Callbacks == {"claude.on_output", "claude.on_response_complete", "claude.on_error",
              "tts.on_state_changed", "tts.on_finished", "tts.on_progress", "tts.on_error",
              "stt.on_state_changed", "stt.on_transcription", "stt.on_error",
              "stt.on_volume_level"}

\* The callbacks an engine invokes on the calling (GUI) thread: _set_state in
\* start_recording, stop_recording and cancel_recording, in pause, resume and
\* stop, and on_error in ClaudeBridge.start
GuiCallbacks == {"tts.on_state_changed", "stt.on_state_changed", "claude.on_error"}

\* class SignalBridge, lines 30-39
Signals == {"output_received", "response_received", "error_received",
            "tts_state_changed", "tts_finished",
            "stt_state_changed", "stt_transcription", "stt_error"}

\* _setup_connections, lines 556-568: the signal a callback emits; a callback
\* that is not set emits nothing
Wiring(cb) ==
    CASE cb = "claude.on_output" -> "output_received"
      [] cb = "claude.on_response_complete" -> "response_received"
      [] cb = "claude.on_error" -> "error_received"
      [] cb = "tts.on_state_changed" -> "tts_state_changed"
      [] cb = "tts.on_finished" -> "tts_finished"
      [] cb = "stt.on_state_changed" -> "stt_state_changed"
      [] cb = "stt.on_transcription" -> "stt_transcription"
      [] cb = "stt.on_error" -> "stt_error"
      [] OTHER -> "none"

\* _setup_connections, lines 546-553: the slot connected to a signal
Slot(signal) ==
    CASE signal = "output_received" -> "_on_claude_output"
      [] signal = "response_received" -> "_on_claude_response"
      [] signal = "error_received" -> "_on_claude_error"
      [] signal = "tts_state_changed" -> "_on_tts_state_changed"
      [] signal = "tts_finished" -> "_on_tts_finished"
      [] signal = "stt_state_changed" -> "_on_stt_state_changed"
      [] signal = "stt_transcription" -> "_on_transcription"
      [] signal = "stt_error" -> "_on_stt_error"

\* connect() without a connection type, lines 546-553: the slots belong to
\* the main window, which lives in the GUI thread, so an emission on that
\* thread calls the slot at once and an emission on another thread posts an
\* event to the GUI thread's queue
DeliveryDirectMut(thread) == "direct"
Delivery(thread) == IF thread = "gui" THEN "direct" ELSE "queued"

NoStep == [op |-> "none", slot |-> "none", thread |-> "gui", src |-> "gui", n |-> 0]

\* A slot runs on a thread for the n-th emission of its signal made on src
Handle(signal, thread, src, n) ==
    /\ sig_last' = [op |-> "handle", slot |-> Slot(signal), thread |-> thread,
                    src |-> src, n |-> n]
    /\ sig_handled' = IF src = "background"
                      THEN [sig_handled EXCEPT ![signal] = @ + 1]
                      ELSE sig_handled

\* An engine invokes its callback cb on a thread: lines 557-568
Callback(cb, thread) ==
    /\ sig_count < MaxEvents
    /\ sig_count' = sig_count + 1
    /\ LET signal == Wiring(cb)
       IN  IF signal = "none"
           THEN /\ sig_last' = [NoStep EXCEPT !.op = "unwired", !.thread = thread]
                /\ UNCHANGED <<sig_queue, sig_emitted, sig_handled>>
           ELSE LET n == IF thread = "gui" THEN 0 ELSE sig_emitted[signal] + 1
                IN  /\ sig_emitted' = IF thread = "gui"
                                      THEN sig_emitted
                                      ELSE [sig_emitted EXCEPT ![signal] = n]
                    /\ IF Delivery(thread) = "direct"
                       THEN /\ Handle(signal, thread, thread, n)
                            /\ sig_queue' = sig_queue
                       ELSE /\ sig_queue' = Append(sig_queue,
                                                   [signal |-> signal, src |-> thread, n |-> n])
                            /\ sig_last' = [NoStep EXCEPT !.op = "emit", !.thread = thread]
                            /\ sig_handled' = sig_handled
    /\ UNCHANGED <<lic_vars, gui_vars, stt_vars, tts_vars, br_vars>>

\* A background thread of an engine (query, playback, recording or
\* transcription thread) invokes a callback
background_callback ==
    \E cb \in Callbacks : Callback(cb, "background")

\* The GUI thread, inside an engine call, invokes a callback
gui_callback ==
    \E cb \in GuiCallbacks : Callback(cb, "gui")

\* The GUI event loop (and QApplication.processEvents in _on_claude_output,
\* line 919) takes the oldest posted event and runs its slot
event_loop ==
    /\ sig_queue # <<>>
    /\ LET e == Head(sig_queue)
       IN  Handle(e.signal, "gui", e.src, e.n)
    /\ sig_queue' = Tail(sig_queue)
    /\ UNCHANGED <<sig_emitted, sig_count, lic_vars, gui_vars, stt_vars, tts_vars, br_vars>>

NextSignals ==
    \/ background_callback
    \/ gui_callback
    \/ event_loop

----------------------------------------------------------------------------
Init ==
    /\ now = 0
    /\ license_data = EmptyDict
    /\ license_file = NoFile
    /\ status = NO_LICENSE
    /\ call = NoCall
    /\ app = "off"
    /\ gui_op = "none"
    /\ stt_state = STT_IDLE
    /\ audio_buffer = 0
    /\ stop_flag = FALSE
    /\ api_key = FALSE
    /\ rec_threads = EmptyDict
    /\ rec_started = 0
    /\ recording_thread = 0
    /\ trans_threads = EmptyDict
    /\ trans_started = 0
    /\ stt_pc = "idle"
    /\ stt_op = "none"
    /\ cancelled = {}
    /\ tts_state = TTS_IDLE
    /\ tts_total = 0
    /\ current_sentence_index = 0
    /\ stop_event = FALSE
    /\ pause_event = TRUE
    /\ music = "stopped"
    /\ play_threads = EmptyDict
    /\ play_started = 0
    /\ play_thread = 0
    /\ tts_pc = "idle"
    /\ tts_text = 0
    /\ tts_op = "none"
    /\ tts_progress = <<>>
    /\ tts_finished = 0
    /\ tts_calm = FALSE
    /\ tts_stopped = FALSE
    /\ paused_at = <<>>
    /\ running = FALSE
    /\ current_process = 0
    /\ queries = EmptyDict
    /\ procs = EmptyDict
    /\ br_started = 0
    /\ br_op = "none"
    /\ sig_queue = <<>>
    /\ sig_emitted = [signal \in Signals |-> 0]
    /\ sig_handled = [signal \in Signals |-> 0]
    /\ sig_count = 0
    /\ sig_last = NoStep

----------------------------------------------------------------------------
(* MainWindow (src/gui/main_window.py): the license flows and the user's      *)
(* operations.  A handler is modelled up to the call that hands the work to   *)
(* an engine (the bridge or terminal, STTEngine, TTSEngine); gui_op names the *)
(* operation that reached its engine.                                         *)

\* _show_trial_dialog: the user's input is "" (cancelled, or no address typed)
\* or an address; start_trial, then _check_license again
TrialDialog(v, t, input, ans2) ==
    IF input = "" THEN v
    ELSE LET s == StartTrialOutcome(v.data, v.file, v.status, t, input, ans2)
             w == ValidateOutcome(s.data, s.file, s.status, t, NoAnswer)
         IN  IF s.ret = "True" THEN w ELSE s

TrialInputs == {""} \cup Emails

ApplyCheck(o) ==
    /\ license_data' = o.data
    /\ license_file' = o.file
    /\ status' = o.status
    /\ call' = NoCall
    \* an exception that leaves __init__ or a slot ends the process
    /\ app' = IF o.raised THEN "crashed" ELSE "running"
    /\ gui_op' = "none"

\* _check_license: validate, then the trial dialog (NO_LICENSE) or the
\* expiry notice (TRIAL_EXPIRED, EXPIRED), which changes nothing
CheckLicense(data, file, st) ==
    \E ans \in ValidateAnswers :
        LET v == ValidateOutcome(data, file, st, now, ans) IN
        IF ~v.raised /\ v.ret = NO_LICENSE
        THEN \E input \in TrialInputs, ans2 \in TrialAnswers :
                 ApplyCheck(TrialDialog(v, now, input, ans2))
        ELSE ApplyCheck(v)

\* main() and MainWindow.__init__: LicenseManager(), then _check_license
Launch ==
    /\ app \in {"off", "crashed"}
    /\ CheckLicense(Loaded(license_file), license_file, NO_LICENSE)
    /\ UNCHANGED <<now, stt_vars, ext_vars>>

\* closeEvent
Close ==
    /\ app \in {"running", "license_dialog"}
    /\ app' = "off"
    /\ gui_op' = "none"
    /\ call' = NoCall
    /\ UNCHANGED <<now, license_data, license_file, status, stt_vars, ext_vars>>

\* _show_license_dialog: the modal LicenseDialog opens
OpenLicenseDialog ==
    /\ app = "running"
    /\ app' = "license_dialog"
    /\ gui_op' = "none"
    /\ call' = NoCall
    /\ UNCHANGED <<now, license_data, license_file, status, stt_vars, ext_vars>>

\* LicenseDialog._activate with a non-blank key: on success the dialog is
\* accepted and _show_license_dialog goes on to _check_license
DialogActivate ==
    /\ app = "license_dialog"
    /\ \E key \in Keys, ans \in ActivateAnswers :
           LET a == ActivateOutcome(license_data, license_file, status, now, key, ans) IN
           IF a.ret = "True"
           THEN CheckLicense(a.data, a.file, a.status)
           ELSE /\ license_data' = a.data
                /\ license_file' = a.file
                /\ status' = a.status
                /\ call' = NoCall
                /\ UNCHANGED <<app, gui_op>>
    /\ UNCHANGED <<now, stt_vars, ext_vars>>

\* LicenseDialog closed by the user; _show_license_dialog goes on to _check_license
DialogClose ==
    /\ app = "license_dialog"
    /\ CheckLicense(license_data, license_file, status)
    /\ UNCHANGED <<now, stt_vars, ext_vars>>

\* What a user operation tests before it hands over to its engine: the
\* handlers hold no test of the license
OperationGate(st) == TRUE

\* _send_message: to the terminal, or (non-blank text) to the bridge
SendMessage ==
    /\ app = "running"
    /\ OperationGate(status)
    /\ \E terminal \in BOOLEAN, blank \in BOOLEAN :
           gui_op' = IF terminal \/ ~blank THEN "send" ELSE "none"
    /\ call' = NoCall
    /\ UNCHANGED <<now, license_data, license_file, status, app, stt_vars, ext_vars>>

\* _toggle_dictation: stt.stop_recording or stt.start_recording; without an
\* API key the handler calls _show_api_key_dialog, which MainWindow lacks
ToggleDictation ==
    /\ app = "running"
    /\ OperationGate(status)
    /\ \E has_key \in BOOLEAN :
           IF has_key
           THEN gui_op' = "dictate" /\ app' = app
           ELSE gui_op' = "none" /\ app' \in {"running", "crashed"}
    /\ call' = NoCall
    /\ UNCHANGED <<now, license_data, license_file, status, stt_vars, ext_vars>>

\* _read_last_response: tts.speak when there is a text to read
ReadLastResponse ==
    /\ app = "running"
    /\ OperationGate(status)
    /\ \E has_text \in BOOLEAN :
           gui_op' = IF has_text THEN "read" ELSE "none"
    /\ call' = NoCall
    /\ UNCHANGED <<now, license_data, license_file, status, app, stt_vars, ext_vars>>

NextGate ==
    \/ Launch
    \/ Close
    \/ OpenLicenseDialog
    \/ DialogActivate
    \/ DialogClose
    \/ SendMessage
    \/ ToggleDictation
    \/ ReadLastResponse
    \/ Advance

NextLicense ==
    \/ Construct
    \/ start_trial
    \/ activate_license
    \/ validate
    \/ can_use_app
    \/ clear_license
    \/ Advance

SpecLicense == Init /\ [][NextLicense]_vars

SpecGate == Init /\ [][NextGate]_vars

SpecSTT == Init /\ [][NextSTT]_vars

SpecTTS == Init /\ [][NextTTS]_vars

SpecBridge == Init /\ [][NextBridge]_vars

SpecSignals == Init /\ [][NextSignals]_vars

\* The transcription thread runs on: it is a daemon thread that nothing blocks,
\* and its upload ends by an answer or by the 30 s timeout of requests.post
SpecSTTFair == SpecSTT /\ WF_vars(trans_begin) /\ WF_vars(trans_end)

----------------------------------------------------------------------------
(* Claims *)

Usable == {VALID, TRIAL, OFFLINE}
Unusable == {TRIAL_EXPIRED, EXPIRED, INVALID, NO_LICENSE}
UserOps == {"send", "dictate", "read"}
ActivationKeys == {"license_key", "license_type", "expiry_date", "activated_at"}

\* C1: once the startup license check has run, the main window carries out a
\* user operation (send, dictate, read aloud) only while the license status
\* is VALID, TRIAL or OFFLINE.
C1_LicenseGate ==
    (app = "running" /\ gui_op \in UserOps) => status \in Usable

\* C2: can_use_app re-validates the license; it returns true exactly when the
\* validation yields VALID, TRIAL or OFFLINE and false for TRIAL_EXPIRED,
\* EXPIRED, INVALID and NO_LICENSE, and get_status afterwards gives that
\* status (the one this validation produced: NO_LICENSE for an empty cache,
\* INVALID when the server answered 200 without "valid").
C2_CanUseApp ==
    (call.op = "can_use_app" /\ ~call.raised) =>
        /\ call.ret \in {"True", "False"}
        /\ call.ret = "True" <=> status \in Usable
        /\ call.ret = "False" <=> status \in Unusable
        /\ license_data = EmptyDict => status = NO_LICENSE
        /\ (call.contacted /\ call.ans.kind = "ok" /\ ~call.ans.valid) => status = INVALID
        /\ (call.contacted /\ call.ans.kind = "error") => status = OFFLINE

C2_Witness ==
    /\ call.op = "can_use_app"
    /\ call.ret = "True"
    /\ status = OFFLINE

\* C3: for a trial or trial_offline license, validate returns TRIAL at every
\* moment less than trial_days full days after trial_start and TRIAL_EXPIRED
\* at every later moment; get_trial_days_left is within 0..trial_days.
C3_TrialLasts ==
    (/\ call.op = "validate"
     /\ TypeOf(license_data) \in TrialTypes
     /\ Has(license_data, "trial_start")) =>
        LET elapsed == now - FromIso(license_data["trial_start"]) IN
        /\ elapsed < trial_days * TicksPerDay => call.ret = TRIAL
        /\ elapsed >= trial_days * TicksPerDay => call.ret = TRIAL_EXPIRED
        /\ get_trial_days_left(license_data, now) \in 0..trial_days

\* C4: for a cached pro or lifetime license and a 200 answer, validate returns
\* VALID if the answer says valid and its expiry date is absent or not in the
\* past, EXPIRED if it says valid and the expiry date has passed, INVALID if
\* it does not say valid; the cache takes the returned expiry date only when
\* the answer says valid.
C4_Validate200 ==
    [][(/\ call'.op = "validate"
        /\ TypeOf(license_data) \in PaidTypes
        /\ call'.ans.kind = "ok") =>
           LET ans == call'.ans IN
           /\ (ans.valid /\ (IsNone(ans.expiry) \/ FromIso(ans.expiry) >= now))
                  => call'.ret = VALID
           /\ (ans.valid /\ ~IsNone(ans.expiry) /\ FromIso(ans.expiry) < now)
                  => call'.ret = EXPIRED
           /\ ~ans.valid => call'.ret = INVALID
           /\ ans.valid => license_data' = Update(license_data, [expiry_date |-> ans.expiry])
           /\ ~ans.valid => license_data' = license_data
      ]_vars

\* C5: for a cached pro or lifetime license the server cannot confirm (network
\* failure or non-200 answer), validate returns EXPIRED when the cached expiry
\* date has passed and OFFLINE otherwise, and leaves the cached data unchanged.
C5_ValidateUnconfirmed ==
    [][(/\ call'.op = "validate"
        /\ TypeOf(license_data) \in PaidTypes
        /\ call'.ans.kind \in {"netfail", "error"}) =>
           LET cached == Get(license_data, "expiry_date", None) IN
           /\ call'.ret = IF ~IsNone(cached) /\ FromIso(cached) < now
                          THEN EXPIRED ELSE OFFLINE
           /\ license_data' = license_data
           /\ license_file' = license_file
      ]_vars

\* C6: validate contacts the server exactly when the cached license is of
\* type pro or lifetime; with no cached data it returns NO_LICENSE, and for a
\* trial or trial_offline license it decides from the trial start date alone
\* (TRIAL while at least one whole day of the trial is left), both without
\* contacting the server.
C6_ValidateContacts ==
    call.op = "validate" =>
        /\ call.contacted <=> TypeOf(license_data) \in {"pro", "lifetime"}
        /\ license_data = EmptyDict => (call.ret = NO_LICENSE /\ ~call.contacted)
        /\ TypeOf(license_data) \in {"trial", "trial_offline"} =>
               /\ ~call.contacted
               /\ call.ret \in {TRIAL, TRIAL_EXPIRED}
               /\ call.ret = TRIAL <=>
                      FromIso(license_data["trial_start"]) + trial_days * TicksPerDay - now
                          >= TicksPerDay

C6_Witness ==
    /\ call.op = "validate"
    /\ TypeOf(license_data) = "trial_offline"
    /\ call.ret = TRIAL_EXPIRED
    /\ ~call.contacted

C8_ActivateFails ==
    [][(/\ call'.op = "activate_license"
        /\ call'.ans.kind \in {"netfail", "error"}) =>
           /\ call'.ret = "False"
           /\ license_data' = license_data
           /\ license_file' = license_file
           /\ status' = status
      ]_vars

C8_Witness ==
    /\ call.op = "activate_license"
    /\ call.ret = "False"
    /\ status = TRIAL
    /\ license_file.exists

\* C9: a successful activate_license (200 answer) returns true, sets the
\* status to VALID, persists the license key, the license type, the expiry
\* date and the activation time, and keeps every other cached field.
C9_ActivateSucceeds ==
    [][(/\ call'.op = "activate_license"
        /\ call'.ans.kind = "ok") =>
           /\ call'.ret = "True"
           /\ status' = VALID
           /\ DOMAIN license_data' = DOMAIN license_data \cup ActivationKeys
           /\ license_data'["license_key"] = call'.arg
           /\ license_data'["license_type"] =
                  IF call'.ans.ltype = "" THEN "pro" ELSE call'.ans.ltype
           /\ license_data'["expiry_date"] = call'.ans.expiry
           /\ license_data'["activated_at"] = Iso(now)
           /\ \A k \in DOMAIN license_data \ ActivationKeys :
                  license_data'[k] = license_data[k]
           /\ license_file' = Saved(license_data')
      ]_vars

C9_Witness ==
    /\ call.op = "activate_license"
    /\ call.ret = "True"
    /\ status = VALID
    /\ Has(license_data, "email")
    /\ Has(license_data, "trial_start")
    /\ TypeOf(license_data) = "lifetime"

\* C10: start_recording acts only in state IDLE, where it empties the audio
\* buffer, clears the stop flag, sets the state to RECORDING and starts one
\* recording thread; in RECORDING or PROCESSING it changes nothing.
C10_StartRecording ==
    [][stt_op' = "start_recording" =>
           IF stt_state = STT_IDLE
           THEN /\ audio_buffer' = 0
                /\ stop_flag' = FALSE
                /\ stt_state' = STT_RECORDING
                /\ Cardinality(DOMAIN rec_threads' \ DOMAIN rec_threads) = 1
                /\ \A id \in DOMAIN rec_threads :
                       Alive(rec_threads', id) /\ rec_threads'[id] = rec_threads[id]
                /\ Alive(rec_threads', recording_thread')
                /\ recording_thread' \notin DOMAIN rec_threads
                /\ trans_threads' = trans_threads
           ELSE UNCHANGED <<stt_state, audio_buffer, stop_flag, rec_threads,
                            recording_thread, trans_threads>>
      ]_vars

C10_Witness ==
    /\ stt_op = "start_recording"
    /\ stt_state = STT_RECORDING
    /\ rec_started > 1
    /\ Cardinality(DOMAIN rec_threads) = 1

\* C11: stop_recording acts only in state RECORDING: it sets the stop event
\* (ending the capture) and, once the wait for the recording thread is over,
\* sets PROCESSING and starts exactly one transcription if audio was captured,
\* or sets IDLE and starts none; in IDLE or PROCESSING it changes nothing.
C11_StopRecording ==
    [][/\ stt_op' = "stop_recording" =>
             IF stt_state = STT_RECORDING
             THEN /\ stop_flag'
                  /\ stt_pc' = "stop_join"
                  /\ UNCHANGED <<stt_state, audio_buffer, rec_threads, trans_threads>>
             ELSE UNCHANGED <<stt_state, audio_buffer, stop_flag, rec_threads,
                              recording_thread, trans_threads, stt_pc>>
       /\ stt_op' = "stop_recording_end" =>
             /\ stop_flag
             /\ IF audio_buffer > 0
                THEN /\ stt_state' = STT_PROCESSING
                     /\ Cardinality(DOMAIN trans_threads' \ DOMAIN trans_threads) = 1
                     /\ DOMAIN trans_threads \subseteq DOMAIN trans_threads'
                ELSE /\ stt_state' = STT_IDLE
                     /\ trans_threads' = trans_threads
             /\ audio_buffer' = audio_buffer
       /\ (stt_pc' = "stop_join" /\ stt_pc # "stop_join") =>
             (stt_state = STT_RECORDING /\ stt_op' = "stop_recording")
      ]_vars

C11_Witness ==
    /\ stt_op = "stop_recording_end"
    /\ stt_state = STT_PROCESSING
    /\ Cardinality(DOMAIN trans_threads) = 1
    /\ audio_buffer > 0

\* C12: after cancel_recording returns the state is IDLE and the audio buffer
\* is empty, and no transcription thread that was alive at that moment (it
\* holds audio captured before the cancel) delivers on_transcription later.
C12_CancelRecording ==
    [][/\ stt_op' = "cancel_recording_end" => (stt_state' = STT_IDLE /\ audio_buffer' = 0)
       /\ stt_op' = "on_transcription" =>
             (DOMAIN trans_threads \ DOMAIN trans_threads') \cap cancelled = {}
      ]_vars

\* C13: whenever the state is PROCESSING it becomes IDLE again with the audio
\* buffer empty; a transcription started without an API key uploads nothing
\* and ends with on_error.
C13_TranscriptionEnds ==
    /\ (stt_state = STT_PROCESSING) ~> (stt_state = STT_IDLE /\ audio_buffer = 0)
    /\ [][/\ \A id \in DOMAIN trans_threads :
                 (trans_threads[id] = "start" /\ ~api_key /\ Alive(trans_threads', id))
                     => trans_threads'[id] # "uploading"
          /\ \A id \in DOMAIN trans_threads \ DOMAIN trans_threads' :
                 /\ stt_state' = STT_IDLE /\ audio_buffer' = 0
                 /\ trans_threads[id] = "failed" => stt_op' = "on_error"
         ]_vars

C13_Witness ==
    /\ stt_op = "on_error"
    /\ ~api_key
    /\ stt_state = STT_IDLE
    /\ trans_started > 0
    /\ audio_buffer = 0

\* The on_progress calls p are (1, total), (2, total), ... in this order
InOrder(p, total) ==
    /\ Len(p) <= total
    /\ \A i \in 1..Len(p) : p[i] = <<i, total>>

\* C14: when speak(text) with a non-blank text returns, any earlier playback
\* is stopped (no older playback thread runs, no audio plays); as long as no
\* stop, speak or pause is called after it, on_progress is reported for
\* i = 1..total in increasing order, one call per sentence, and on_finished
\* is invoked at most once, after the last sentence, with the state set to IDLE.
C14_Speak ==
    [][/\ tts_op' = "speak" =>
             (DOMAIN play_threads' = {play_thread'} /\ music' # "playing")
       /\ tts_calm' =>
             /\ InOrder(tts_progress', tts_total')
             /\ tts_finished' <= 1
             /\ tts_finished' = 1 => Len(tts_progress') = tts_total'
             /\ tts_op' = "on_finished" => tts_state' = TTS_IDLE
      ]_vars

\* C15: from the return of stop() until the next speak() the state is IDLE,
\* no audio is playing and the playback thread starts no further sentence.
C15_Stop ==
    [][tts_stopped' =>
             /\ tts_state' = TTS_IDLE
             /\ music' # "playing"
             /\ tts_op' \notin {"gen_start", "play"}
      ]_vars

\* C16: pause() acts only in PLAYING (the state becomes PAUSED, the pause
\* event is cleared), resume() only in PAUSED (PLAYING, the event set); in any
\* other state both leave the state and the pause event alone; toggle_pause()
\* is pause() in PLAYING, resume() in PAUSED and nothing otherwise; a resume()
\* that follows a pause() returns to PLAYING at the sentence of the pause.
C16_PauseResume ==
    [][/\ tts_op' = "pause" =>
             IF tts_state = TTS_PLAYING
             THEN tts_state' = TTS_PAUSED /\ ~pause_event'
             ELSE UNCHANGED <<tts_state, pause_event>>
       /\ tts_op' = "resume" =>
             IF tts_state = TTS_PAUSED
             THEN tts_state' = TTS_PLAYING /\ pause_event'
             ELSE UNCHANGED <<tts_state, pause_event>>
       /\ tts_op' = "toggle_pause" =>
             IF tts_state = TTS_PLAYING
             THEN tts_state' = TTS_PAUSED /\ ~pause_event'
             ELSE IF tts_state = TTS_PAUSED
                  THEN tts_state' = TTS_PLAYING /\ pause_event'
                  ELSE UNCHANGED <<tts_state, pause_event>>
       /\ (tts_op' = "resume" /\ paused_at # <<>>) =>
             (tts_state' = TTS_PLAYING /\ paused_at = <<current_sentence_index'>>)
      ]_vars

\* C17: while playback is paused (the pause event is cleared, from a pause()
\* that took effect to the next resume() or stop()), the state stays PAUSED
\* and the playback thread neither generates nor starts playing a sentence.
C17_PausedWaits ==
    [][(~pause_event /\ ~pause_event') =>
             /\ tts_state' = TTS_PAUSED
             /\ tts_op' \notin {"gen_start", "gen_done", "play"}
      ]_vars

\* The sequence p is a prefix of the sequence s
IsPrefix(p, s) == Len(p) <= Len(s) /\ \A i \in 1..Len(p) : p[i] = s[i]

\* The on_output calls of query q so far: the notice, then lines of q's own
\* process in the order they were written
OutputInOrder(qs, ps, q) ==
    \/ qs[q].out = <<>>
    \/ /\ Head(qs[q].out) = Notice
       /\ Tail(qs[q].out) = qs[q].response_text
       /\ IF q \in DOMAIN ps
          THEN IsPrefix(Tail(qs[q].out), ps[q].produced)
          ELSE Tail(qs[q].out) = <<>>

C19_SendNotRunning ==
    [][/\ (br_op' = "send" /\ ~running) =>
             UNCHANGED <<running, current_process, queries, procs, br_started>>
       /\ DOMAIN queries' # DOMAIN queries /\ DOMAIN queries \subseteq DOMAIN queries' => running
       /\ br_op' = "popen" => running
      ]_vars

\* C20: a callback invoked on a background thread runs no slot there: its
\* result reaches the main window as a posted signal event; every slot runs
\* on the GUI thread, and the events of one signal that were emitted on
\* background threads are handled in the order of their emission.
C20_Signals ==
    [][/\ (sig_last'.thread = "background" /\ sig_count' # sig_count) =>
             (sig_last'.op # "handle" /\ sig_handled' = sig_handled)
       /\ sig_last'.op = "handle" => sig_last'.thread = "gui"
       /\ \A signal \in Signals :
             sig_handled'[signal] # sig_handled[signal] =>
                 /\ sig_last'.slot = Slot(signal)
                 /\ sig_last'.n = sig_handled[signal] + 1
                 /\ sig_handled'[signal] = sig_last'.n
      ]_vars

C20_Witness ==
    /\ sig_last.op = "handle"
    /\ sig_last.src = "background"
    /\ sig_last.n = 2
    /\ sig_last.slot = "_on_claude_output"
    /\ sig_queue # <<>>

====
